---- MODULE Spec2Model ----
(***************************************************************************)
(* Personal Expense Tracker (src/ExpenseTracker.py).                       *)
(*                                                                         *)
(* The persisted store (three SQLite tables), the managers that read and   *)
(* write it through DatabaseManager.execute_query / execute_update, and    *)
(* the interactive loop ExpenseTracker.run.                                *)
(*                                                                         *)
(* Text is modelled as a sequence of one-character strings, so that the    *)
(* store's lexical comparison of dates and its LIKE matching are computed  *)
(* character by character.  Amounts are whole currency units.              *)
(***************************************************************************)
EXTENDS Integers, Sequences, FiniteSets, TLC

VARIABLES
  expenses,        \* table expenses, rows in rowid order
  expenses_seq,    \* AUTOINCREMENT counter of table expenses
  categories,      \* table categories, rows in rowid order
  categories_seq,  \* AUTOINCREMENT counter of table categories
  budget,          \* table budget, a set of rows keyed by id
  today,           \* the calendar date datetime.now().date() returns
  ret,             \* outcome of the operation that ran last
  lastSet,         \* amount of the most recent successful set_monthly_budget
  recorded,        \* the fields of every successful add_expense, in order
  pc,              \* position of ExpenseTracker.run
  choice,          \* menu choice being dispatched by run
  exitCause        \* why run stopped

vars == <<expenses, expenses_seq, categories, categories_seq, budget, today,
          ret, lastSet, recorded, pc, choice, exitCause>>

store == <<expenses, expenses_seq, categories, categories_seq, budget>>

(***************************************************************************)
(* Bounds of the model.                                                    *)
(***************************************************************************)
MaxExpenses == 2
MaxTicks == 1

(***************************************************************************)
(* Optional values: Python's None, and truthiness as `if x:` tests it.     *)
(***************************************************************************)
None == [isNone |-> TRUE]
Some(x) == [isNone |-> FALSE, val |-> x]
TruthyText(o) == ~o.isNone /\ o.val # <<>>
TruthyNum(o) == ~o.isNone /\ o.val # 0

(***************************************************************************)
(* Characters and the byte order the store compares text by.               *)
(***************************************************************************)
Digits == <<"0", "1", "2", "3", "4", "5", "6", "7", "8", "9">>
Uppers == <<"A", "B", "C", "D", "E", "F", "G", "H", "I", "J", "K", "L", "M",
            "N", "O", "P", "Q", "R", "S", "T", "U", "V", "W", "X", "Y", "Z">>
Lowers == <<"a", "b", "c", "d", "e", "f", "g", "h", "i", "j", "k", "l", "m",
            "n", "o", "p", "q", "r", "s", "t", "u", "v", "w", "x", "y", "z">>
DigitSet == {Digits[i] : i \in 1..10}
UpperSet == {Uppers[i] : i \in 1..26}
LowerSet == {Lowers[i] : i \in 1..26}
DigitVal(c) == (CHOOSE i \in 1..10 : Digits[i] = c) - 1
Index(c, alphabet) == CHOOSE i \in 1..Len(alphabet) : alphabet[i] = c

Chars == {" ", "%", "-", "_"} \cup DigitSet \cup UpperSet \cup LowerSet

\* the ASCII code of each character
Ascii ==
  [c \in Chars |->
     CASE c = " " -> 32
       [] c = "%" -> 37
       [] c = "-" -> 45
       [] c \in DigitSet -> 48 + DigitVal(c)
       [] c \in UpperSet -> 64 + Index(c, Uppers)
       [] c = "_" -> 95
       [] c \in LowerSet -> 96 + Index(c, Lowers)]

Ord(c) == Ascii[c]

\* ASCII case folding, as the store's LIKE applies it
Folded == [c \in Chars |-> IF c \in UpperSet THEN Lowers[Index(c, Uppers)] ELSE c]

Lower(c) == Folded[c]

RECURSIVE TextLess(_, _)
TextLess(s, t) ==
  IF t = <<>> THEN FALSE
  ELSE IF s = <<>> THEN TRUE
  ELSE IF Ord(Head(s)) # Ord(Head(t)) THEN Ord(Head(s)) < Ord(Head(t))
  ELSE TextLess(Tail(s), Tail(t))

TextLeq(s, t) == s = t \/ TextLess(s, t)

(***************************************************************************)
(* Calendar dates: datetime.date, strftime('%Y-%m-%d'), strptime,          *)
(* weekday() and timedelta(days=n).                                        *)
(***************************************************************************)
IsLeap(y) == (y % 4 = 0 /\ y % 100 # 0) \/ y % 400 = 0

DaysInMonth(y, m) ==
  IF m = 2 THEN (IF IsLeap(y) THEN 29 ELSE 28)
  ELSE IF m \in {4, 6, 9, 11} THEN 30 ELSE 31

Date(y, m, d) == [y |-> y, m |-> m, d |-> d]

IsDate(y, m, d) ==
  /\ y \in 1..9999
  /\ m \in 1..12
  /\ d \in 1..DaysInMonth(y, m)

RECURSIVE DaysBeforeMonth(_, _)
DaysBeforeMonth(y, m) ==
  IF m = 1 THEN 0 ELSE DaysBeforeMonth(y, m - 1) + DaysInMonth(y, m - 1)

DaysBeforeYear(y) ==
  LET p == y - 1 IN p * 365 + (p \div 4) - (p \div 100) + (p \div 400)

toordinal(dt) == DaysBeforeYear(dt.y) + DaysBeforeMonth(dt.y, dt.m) + dt.d

weekday(dt) == (toordinal(dt) + 6) % 7

\* the date n days before dt, for 0 <= n <= 6
minus_days(dt, n) ==
  IF n < dt.d THEN Date(dt.y, dt.m, dt.d - n)
  ELSE IF dt.m > 1
    THEN Date(dt.y, dt.m - 1, DaysInMonth(dt.y, dt.m - 1) + dt.d - n)
    ELSE Date(dt.y - 1, 12, 31 + dt.d - n)

next_day(dt) ==
  IF dt.d < DaysInMonth(dt.y, dt.m) THEN Date(dt.y, dt.m, dt.d + 1)
  ELSE IF dt.m < 12 THEN Date(dt.y, dt.m + 1, 1)
  ELSE Date(dt.y + 1, 1, 1)

RECURSIVE Pad(_, _)
Pad(n, w) == IF w = 0 THEN <<>> ELSE Append(Pad(n \div 10, w - 1), Digits[(n % 10) + 1])

strftime(dt) == Pad(dt.y, 4) \o <<"-">> \o Pad(dt.m, 2) \o <<"-">> \o Pad(dt.d, 2)

RECURSIVE Number(_)
Number(s) == IF s = <<>> THEN 0 ELSE 10 * Number(SubSeq(s, 1, Len(s) - 1)) + DigitVal(s[Len(s)])

AllDigits(s) == \A i \in 1..Len(s) : s[i] \in DigitSet

\* datetime.strptime(s, '%Y-%m-%d'): a four-digit year, then a month and a
\* day of one or two digits each, separated by "-"; None where it raises
strptime(s) ==
  LET shape(i, j) ==
        /\ Len(s) = 6 + i + j
        /\ AllDigits(SubSeq(s, 1, 4))
        /\ s[5] = "-"
        /\ AllDigits(SubSeq(s, 6, 5 + i))
        /\ s[6 + i] = "-"
        /\ AllDigits(SubSeq(s, 7 + i, 6 + i + j))
      ok == { ij \in (1..2) \X (1..2) :
                /\ shape(ij[1], ij[2])
                /\ IsDate(Number(SubSeq(s, 1, 4)),
                          Number(SubSeq(s, 6, 5 + ij[1])),
                          Number(SubSeq(s, 7 + ij[1], 6 + ij[1] + ij[2]))) }
  IN IF ok = {} THEN None
     ELSE LET ij == CHOOSE ij \in ok : TRUE
          IN Some(Date(Number(SubSeq(s, 1, 4)),
                       Number(SubSeq(s, 6, 5 + ij[1])),
                       Number(SubSeq(s, 7 + ij[1], 6 + ij[1] + ij[2]))))

(***************************************************************************)
(* Exact quotients, for the one division the program performs.             *)
(***************************************************************************)
RECURSIVE GCD(_, _)
GCD(a, b) == IF b = 0 THEN a ELSE GCD(b, a % b)

Abs(n) == IF n < 0 THEN -n ELSE n

\* the quotient n / d in lowest terms, d > 0
Ratio(n, d) ==
  LET g == GCD(Abs(n), d) IN [num |-> n \div g, den |-> d \div g]

(***************************************************************************)
(* The text values the model draws its inputs from.                        *)
(***************************************************************************)
Food == <<"F", "o", "o", "d">>
Travel == <<"T", "r", "a", "v", "e", "l">>
Rent == <<"R", "e", "n", "t">>
Shopping == <<"S", "h", "o", "p", "p", "i", "n", "g">>
Utilities == <<"U", "t", "i", "l", "i", "t", "i", "e", "s">>
Healthcare == <<"H", "e", "a", "l", "t", "h", "c", "a", "r", "e">>
Entertainment == <<"E", "n", "t", "e", "r", "t", "a", "i", "n", "m", "e", "n", "t">>
Gym == <<"G", "y", "m">>

default_categories ==
  <<Food, Travel, Rent, Shopping, Utilities, Healthcare, Entertainment>>

(***************************************************************************)
(* DatabaseManager: the statements the managers run, and the two executors *)
(* that turn a backend error into an empty result or False.  ok is FALSE   *)
(* when the backend raises sqlite3.Error for the statement.                *)
(***************************************************************************)
execute_query(ok, rows) == IF ok THEN rows ELSE <<>>

\* execute_update: constraint is FALSE when the statement violates a
\* constraint of the schema, which raises sqlite3.IntegrityError
execute_update(ok, constraint) == ok /\ constraint

Range(s) == {s[i] : i \in 1..Len(s)}

RECURSIVE SumAmount(_)
SumAmount(rows) ==
  IF rows = <<>> THEN 0 ELSE Head(rows).amount + SumAmount(Tail(rows))

\* SQL SUM(amount): NULL over no rows
SqlSum(rows) == IF rows = <<>> THEN None ELSE Some(SumAmount(rows))

RECURSIVE Arrange(_, _)
\* every sequence of the elements of S in which ahead[x], the number of
\* elements that must come before x, never decreases
Arrange(S, ahead) ==
  IF S = {} THEN { <<>> }
  ELSE LET first == {x \in S : \A y \in S : ahead[x] <= ahead[y]}
       IN UNION { { <<x>> \o t : t \in Arrange(S \ {x}, ahead) } : x \in first }

\* every arrangement of the set S that ORDER BY may return: no element
\* placed before one that After puts strictly ahead of it
Orderings(S, After(_, _)) ==
  Arrange(S, [x \in S |-> Cardinality({y \in S : After(y, x)})])

\* INSERT OR REPLACE under the fixed id 1
InsertExpense_replace(table, seq, date, category, amount, description) ==
  << [id |-> 1, date |-> date, category |-> category, amount |-> amount,
      description |-> description] >> \o (IF table = <<>> THEN <<>> ELSE Tail(table))

\* INSERT INTO expenses (date, category, amount, description): the store
\* assigns the next AUTOINCREMENT id
InsertExpense(table, seq, date, category, amount, description) ==
  Append(table, [id |-> seq + 1, date |-> date, category |-> category,
                 amount |-> amount, description |-> description])

\* date BETWEEN start AND end, on TEXT
Between(date, start, end) == TextLeq(start, date) /\ TextLeq(date, end)

RECURSIVE Like(_, _)
\* text LIKE pattern: % matches any run of characters, _ any one character,
\* any other character itself without regard to ASCII case
Like(text, pattern) ==
  IF pattern = <<>> THEN text = <<>>
  ELSE IF Head(pattern) = "%"
    THEN Like(text, Tail(pattern)) \/ (text # <<>> /\ Like(Tail(text), pattern))
  ELSE /\ text # <<>>
       /\ (Head(pattern) = "_" \/ Lower(Head(pattern)) = Lower(Head(text)))
       /\ Like(Tail(text), Tail(pattern))

(***************************************************************************)
(* ExpenseManager.                                                         *)
(***************************************************************************)
\* the WHERE clause get_expenses assembles from its six optional filters
ExpenseWhere(r, f) ==
  /\ TruthyText(f.start_date) => TextLeq(f.start_date.val, r.date)
  /\ TruthyText(f.end_date) => TextLeq(r.date, f.end_date.val)
  /\ TruthyText(f.category) => r.category = f.category.val
  /\ ~f.min_amount.isNone => r.amount >= f.min_amount.val
  /\ ~f.max_amount.isNone => r.amount <= f.max_amount.val
  /\ TruthyText(f.keyword) => Like(r.description, <<"%">> \o f.keyword.val \o <<"%">>)

\* the SELECT list with date and category exchanged
ExpenseTuple_swapped(r) == <<r.id, r.category, r.date, r.amount, r.description>>

ExpenseTuple(r) == <<r.id, r.date, r.category, r.amount, r.description>>

\* the results get_expenses may return: the selected rows as tuples,
\* ORDER BY date DESC, or the empty list when the backend fails
get_expenses_results(table, f, ok) ==
  LET Test(r) == ExpenseWhere(r, f)
      hit == Range(SelectSeq(table, Test))
      After(a, b) == TextLess(b.date, a.date)
  IN IF ok THEN { [i \in 1..Len(s) |-> ExpenseTuple(s[i])] : s \in Orderings(hit, After) }
     ELSE { <<>> }

\* the date window get_expense_summary derives from period and today
summary_window(period, now) ==
  IF period = "daily" THEN
    [start_date |-> Some(strftime(now)), end_date |-> Some(strftime(now))]
  ELSE IF period = "weekly" THEN
    [start_date |-> Some(strftime(minus_days(now, weekday(now)))),
     end_date |-> Some(strftime(now))]
  ELSE IF period = "monthly" THEN
    [start_date |-> Some(strftime(Date(now.y, now.m, 1))),
     end_date |-> Some(strftime(now))]
  ELSE IF period = "yearly" THEN
    [start_date |-> Some(strftime(Date(now.y, 1, 1))),
     end_date |-> Some(strftime(now))]
  ELSE [start_date |-> None, end_date |-> None]

\* the rows the two aggregate statements of get_expense_summary range over
summary_rows(table, w) ==
  LET Test(r) == Between(r.date, w.start_date.val, w.end_date.val)
  IN IF TruthyText(w.start_date) /\ TruthyText(w.end_date)
     THEN SelectSeq(table, Test) ELSE table

\* COUNT(*) in place of SUM(amount)
GroupByCategory_count(rows) ==
  { LET Test(r) == r.category = c
    IN <<c, Len(SelectSeq(rows, Test))>> : c \in {r.category : r \in Range(rows)} }

\* SELECT category, SUM(amount) ... GROUP BY category
GroupByCategory(rows) ==
  { LET Test(r) == r.category = c
    IN <<c, SumAmount(SelectSeq(rows, Test))>> : c \in {r.category : r \in Range(rows)} }

\* the outcomes of get_expense_summary: ok1 and ok2 tell whether the
\* backend runs the total and the breakdown statement
get_expense_summary_results(table, period, now, ok1, ok2) ==
  LET w == summary_window(period, now)
      rows == summary_rows(table, w)
      total_result == execute_query(ok1, << <<SqlSum(rows)>> >>)
      More(a, b) == a[2] > b[2]
  IN IF total_result = <<>>
     THEN { [raised |-> "IndexError"] }
     ELSE { [raised |-> "",
             total_amount |-> IF TruthyNum(total_result[1][1])
                              THEN total_result[1][1].val ELSE 0,
             category_breakdown |-> execute_query(ok2, s),
             period |-> period,
             start_date |-> w.start_date,
             end_date |-> w.end_date] : s \in Orderings(GroupByCategory(rows), More) }

(***************************************************************************)
(* CategoryManager.                                                        *)
(***************************************************************************)
CategoryNames(table) == {r.name : r \in Range(table)}

\* the listing with every name folded to lower case
get_categories_results_folded(table, ok) ==
  LET After(a, b) == TextLess(a.name, b.name)
      Fold(name) == [k \in 1..Len(name) |-> Lower(name[k])]
  IN IF ok THEN { [i \in 1..Len(s) |-> Fold(s[i].name)]
                  : s \in Orderings(Range(table), After) }
     ELSE { <<>> }

\* SELECT name FROM categories ORDER BY name
get_categories_results(table, ok) ==
  LET After(a, b) == TextLess(a.name, b.name)
  IN IF ok THEN { [i \in 1..Len(s) |-> s[i].name] : s \in Orderings(Range(table), After) }
     ELSE { <<>> }

\* the name column without its UNIQUE constraint
InsertCategoryAllowed_any(table, name) == TRUE

\* INSERT INTO categories (name): name is UNIQUE
InsertCategoryAllowed(table, name) == name \notin CategoryNames(table)

InsertCategory(table, seq, name) == Append(table, [id |-> seq + 1, name |-> name])

\* INSERT OR IGNORE of each default name, in order
RECURSIVE SeedCategories(_, _)
SeedCategories(table, names) ==
  IF names = <<>> THEN table
  ELSE SeedCategories(
         IF InsertCategoryAllowed(table, Head(names))
         THEN InsertCategory(table, Len(table), Head(names)) ELSE table,
         Tail(names))

(***************************************************************************)
(* BudgetManager.                                                          *)
(***************************************************************************)
BudgetRow1(table) == LET Test(r) == r.id = 1 IN SelectSeq(table, Test)

\* a budget row inserted on every call, under an id of its own
set_monthly_budget_insert(table, amount, ok1, ok2) ==
  [success |-> execute_update(ok2, TRUE),
   exists |-> execute_query(ok1, BudgetRow1(table)) # <<>>,
   table |-> IF execute_update(ok2, TRUE)
             THEN Append(table, [id |-> Len(table) + 1, monthly_budget |-> amount])
             ELSE table]

\* the table set_monthly_budget leaves and the boolean it returns: ok1 is
\* the backend's answer to the existence check, ok2 to the write
set_monthly_budget(table, amount, ok1, ok2) ==
  LET exists == execute_query(ok1, BudgetRow1(table))
      updated == [i \in 1..Len(table) |->
                    IF table[i].id = 1
                    THEN [table[i] EXCEPT !.monthly_budget = amount] ELSE table[i]]
      inserted == Append(table, [id |-> 1, monthly_budget |-> amount])
      success == IF exists # <<>> THEN execute_update(ok2, TRUE)
                 ELSE execute_update(ok2, BudgetRow1(table) = <<>>)
  IN [success |-> success,
      exists |-> exists # <<>>,
      table |-> IF ~success THEN table
                ELSE IF exists # <<>> THEN updated ELSE inserted]

get_monthly_budget(table, ok) ==
  LET result == execute_query(ok, BudgetRow1(table))
  IN IF result # <<>> THEN Some(result[1].monthly_budget) ELSE None

\* get_budget_status reporting the month's spending when no budget is set
get_budget_status_spent(btable, etable, now, ok1, ok2) ==
  LET b == get_monthly_budget(btable, ok1)
      month_start == strftime(Date(now.y, now.m, 1))
      month_end == strftime(now)
      Test(r) == Between(r.date, month_start, month_end)
      spent_result == execute_query(ok2, << <<SqlSum(SelectSeq(etable, Test))>> >>)
      spent == IF TruthyNum(spent_result[1][1]) THEN spent_result[1][1].val ELSE 0
  IN IF ~TruthyNum(b)
     THEN [raised |-> "", budget |-> None,
           spent |-> SumAmount(SelectSeq(etable, Test)), remaining |-> 0,
           percentage |-> Ratio(0, 1)]
     ELSE IF spent_result = <<>> THEN [raised |-> "IndexError"]
     ELSE [raised |-> "", budget |-> b, spent |-> spent,
           remaining |-> b.val - spent,
           percentage |-> IF b.val > 0 THEN Ratio(spent * 100, b.val)
                          ELSE Ratio(0, 1)]

\* get_budget_status: ok1 is the backend's answer to the budget lookup,
\* ok2 to the statement that sums the month's spending
get_budget_status(btable, etable, now, ok1, ok2) ==
  LET b == get_monthly_budget(btable, ok1)
      month_start == strftime(Date(now.y, now.m, 1))
      month_end == strftime(now)
      Test(r) == Between(r.date, month_start, month_end)
      spent_result == execute_query(ok2, << <<SqlSum(SelectSeq(etable, Test))>> >>)
      spent == IF TruthyNum(spent_result[1][1]) THEN spent_result[1][1].val ELSE 0
  IN IF ~TruthyNum(b)
     THEN [raised |-> "", budget |-> None, spent |-> 0, remaining |-> 0,
           percentage |-> Ratio(0, 1)]
     ELSE IF spent_result = <<>> THEN [raised |-> "IndexError"]
     ELSE [raised |-> "", budget |-> b, spent |-> spent,
           remaining |-> b.val - spent,
           percentage |-> IF b.val > 0 THEN Ratio(spent * 100, b.val)
                          ELSE Ratio(0, 1)]

(***************************************************************************)
(* ReportGenerator.                                                        *)
(***************************************************************************)
\* the lines generate_csv_report writes: the header, then every expense
\* ORDER BY date DESC
generate_csv_report_results(table, ok) ==
  LET After(a, b) == TextLess(b.date, a.date)
      Line(r) == <<r.date, r.category, r.amount, r.description>>
  IN { << <<"Date", "Category", "Amount", "Description">> >>
         \o execute_query(ok, [i \in 1..Len(s) |-> Line(s[i])])
       : s \in Orderings(Range(table), After) }

\* generate_category_pie_chart and generate_monthly_bar_chart: a file, or
\* the no-data signal when the aggregate statement returns no row
chart_result(table, ok) ==
  IF execute_query(ok, table) = <<>> THEN "no data" ELSE "file"

(***************************************************************************)
(* Inputs.  today starts on Sunday 2024-03-10; the dates an expense may    *)
(* carry lie before the month, on that day, later in the month, and on     *)
(* 2024-03-05 written without zero padding, which strptime('%Y-%m-%d')     *)
(* accepts.                                                                *)
(***************************************************************************)
FirstDay == Date(2024, 3, 10)
UnpaddedDate == <<"2", "0", "2", "4", "-", "3", "-", "5">>
ExpenseDates ==
  << strftime(Date(2024, 2, 29)), strftime(Date(2024, 3, 10)),
     strftime(Date(2024, 3, 20)), UnpaddedDate >>
ExpenseCategories == <<Food, Rent>>
Amounts == <<40, 80>>
Descriptions == << <<"a", "b">>, <<"A">> >>

Expense(date, category, amount, description) ==
  [date |-> date, category |-> category, amount |-> amount,
   description |-> description]

\* eight expenses in which every pair of field values occurs together
ExpenseInputs ==
  { Expense(ExpenseDates[i + 1], ExpenseCategories[b + 1],
            Amounts[((b + i) % 2) + 1], Descriptions[((b + (i \div 2)) % 2) + 1])
    : i \in 0..3, b \in 0..1 }

\* expenses for the budget: every date with every amount
BudgetExpenses ==
  { Expense(ExpenseDates[i], Food, Amounts[j], Descriptions[1]) : i \in 1..4, j \in 1..2 }

FewExpenses ==
  { Expense(ExpenseDates[2], Food, 40, Descriptions[1]),
    Expense(UnpaddedDate, Rent, 80, Descriptions[2]) }

NoFilter ==
  [start_date |-> None, end_date |-> None, category |-> None,
   min_amount |-> None, max_amount |-> None, keyword |-> None]

\* one filter set to a value
With(f, setting) == [f EXCEPT ![setting[1]] = Some(setting[2])]

\* a value for each filter
PlainSettings ==
  { <<"start_date", strftime(Date(2024, 3, 1))>>,
    <<"end_date", strftime(Date(2024, 3, 10))>>,
    <<"category", Food>>,
    <<"min_amount", 80>>,
    <<"max_amount", 40>>,
    <<"keyword", <<"a">> >> }

\* the values Python takes for false, and the LIKE wildcard
OddSettings ==
  { <<"end_date", <<>> >>,
    <<"category", <<>> >>,
    <<"min_amount", 0>>,
    <<"max_amount", 0>>,
    <<"keyword", <<"_">> >> }

\* no filter, every single filter, and every two plain filters together
Filters ==
  {NoFilter}
    \cup { With(NoFilter, a) : a \in PlainSettings \cup OddSettings }
    \cup { With(With(NoFilter, a), b) : a, b \in PlainSettings }

FewFilters ==
  { NoFilter, [NoFilter EXCEPT !.category = Some(Food)],
    [NoFilter EXCEPT !.keyword = Some(<<"_">>)] }

Budgets == {100, 50}
CategoryInputs == {Food, Gym}
Periods == {"daily", "weekly", "monthly", "yearly", "all"}

(***************************************************************************)
(* The state after construction: ExpenseTracker.__init__ has run           *)
(* init_database on a new store.                                           *)
(***************************************************************************)
Init ==
  /\ expenses = <<>>
  /\ expenses_seq = 0
  /\ categories = SeedCategories(<<>>, default_categories)
  /\ categories_seq = Len(default_categories)
  /\ budget = <<>>
  /\ today = FirstDay
  /\ ret = [op |-> "init", raised |-> ""]
  /\ lastSet = None
  /\ recorded = <<>>
  /\ pc = "api"
  /\ choice = 0
  /\ exitCause = ""

(***************************************************************************)
(* The managers' operations.  Each leaves its outcome in ret.              *)
(***************************************************************************)
shell == <<pc, choice, exitCause>>

\* ExpenseManager.add_expense, its arguments drawn from Inputs
add_expense(Inputs) ==
  /\ Len(expenses) < MaxExpenses
  /\ \E e \in Inputs, ok \in BOOLEAN :
       LET success == execute_update(ok, TRUE) IN
       /\ expenses' = IF success
                      THEN InsertExpense(expenses, expenses_seq, e.date, e.category,
                                         e.amount, e.description)
                      ELSE expenses
       /\ expenses_seq' = IF success THEN expenses_seq + 1 ELSE expenses_seq
       /\ recorded' = IF success THEN Append(recorded, e) ELSE recorded
       /\ ret' = [op |-> "add_expense", raised |-> "", args |-> e, ok |-> ok,
                  success |-> success]
  /\ UNCHANGED <<categories, categories_seq, budget, today, lastSet, shell>>

\* ExpenseManager.get_expenses, its filters drawn from Inputs
get_expenses(Inputs) ==
  /\ \E f \in Inputs, ok \in BOOLEAN :
       \E rows \in get_expenses_results(expenses, f, ok) :
         ret' = [op |-> "get_expenses", raised |-> "", filters |-> f, ok |-> ok,
                 rows |-> rows]
  /\ UNCHANGED <<store, today, lastSet, recorded, shell>>

get_expense_summary ==
  /\ \E period \in Periods, ok1, ok2 \in BOOLEAN :
       \E r \in get_expense_summary_results(expenses, period, today, ok1, ok2) :
         ret' = [op |-> "get_expense_summary", raised |-> r.raised,
                 period |-> period, ok |-> ok1 /\ ok2, summary |-> r]
  /\ UNCHANGED <<store, today, lastSet, recorded, shell>>

get_categories ==
  /\ \E ok \in BOOLEAN :
       \E names \in get_categories_results(categories, ok) :
         ret' = [op |-> "get_categories", raised |-> "", ok |-> ok, names |-> names]
  /\ UNCHANGED <<store, today, lastSet, recorded, shell>>

add_category ==
  /\ \E name \in CategoryInputs, ok \in BOOLEAN :
       LET success == execute_update(ok, InsertCategoryAllowed(categories, name)) IN
       /\ categories' = IF success
                        THEN InsertCategory(categories, categories_seq, name)
                        ELSE categories
       /\ categories_seq' = IF success THEN categories_seq + 1 ELSE categories_seq
       /\ ret' = [op |-> "add_category", raised |-> "", name |-> name, ok |-> ok,
                  success |-> success]
  /\ UNCHANGED <<expenses, expenses_seq, budget, today, lastSet, recorded, shell>>

set_monthly_budget_op ==
  /\ \E amount \in Budgets, ok1, ok2 \in BOOLEAN :
       LET r == set_monthly_budget(budget, amount, ok1, ok2) IN
       /\ budget' = r.table
       /\ lastSet' = IF r.success THEN Some(amount) ELSE lastSet
       /\ ret' = [op |-> "set_monthly_budget", raised |-> "", amount |-> amount,
                  ok |-> ok1 /\ ok2, exists |-> r.exists, success |-> r.success]
  /\ UNCHANGED <<expenses, expenses_seq, categories, categories_seq, today,
                 recorded, shell>>

get_monthly_budget_op ==
  /\ \E ok \in BOOLEAN :
       ret' = [op |-> "get_monthly_budget", raised |-> "", ok |-> ok,
               budget |-> get_monthly_budget(budget, ok)]
  /\ UNCHANGED <<store, today, lastSet, recorded, shell>>

get_budget_status_op ==
  /\ \E ok1, ok2 \in BOOLEAN :
       LET r == get_budget_status(budget, expenses, today, ok1, ok2) IN
       ret' = [op |-> "get_budget_status", raised |-> r.raised,
               ok |-> ok1 /\ ok2, status |-> r]
  /\ UNCHANGED <<store, today, lastSet, recorded, shell>>

\* DatabaseManager.init_database on the existing store, as every start of
\* the program runs it; a backend error leaves the store as it was
init_database ==
  /\ \E ok \in BOOLEAN :
       /\ categories' = IF ok THEN SeedCategories(categories, default_categories)
                        ELSE categories
       /\ ret' = [op |-> "init_database", raised |-> "", ok |-> ok]
  /\ UNCHANGED <<expenses, expenses_seq, categories_seq, budget, today, lastSet,
                 recorded, shell>>

generate_csv_report ==
  /\ \E ok \in BOOLEAN :
       \E lines \in generate_csv_report_results(expenses, ok) :
         ret' = [op |-> "generate_csv_report", raised |-> "", ok |-> ok,
                 lines |-> lines]
  /\ UNCHANGED <<store, today, lastSet, recorded, shell>>

generate_chart ==
  /\ \E ok \in BOOLEAN, chart \in {"category_pie", "monthly_bar"} :
       ret' = [op |-> "generate_chart", raised |-> "", chart |-> chart,
               ok |-> ok, result |-> chart_result(expenses, ok)]
  /\ UNCHANGED <<store, today, lastSet, recorded, shell>>

\* midnight passes: datetime.now().date() moves to the next day
Tick ==
  /\ toordinal(today) - toordinal(FirstDay) < MaxTicks
  /\ today' = next_day(today)
  /\ ret' = [op |-> "tick", raised |-> ""]
  /\ UNCHANGED <<store, lastSet, recorded, shell>>

(***************************************************************************)
(* Specifications.  Spec runs every operation of the managers in any       *)
(* order within one day; the others run the operations of one manager on   *)
(* more inputs, and let the day change where the operation reads it.       *)
(***************************************************************************)
Next ==
  \/ add_expense(FewExpenses)
  \/ get_expenses(FewFilters)
  \/ get_expense_summary
  \/ get_categories
  \/ add_category
  \/ set_monthly_budget_op
  \/ get_monthly_budget_op
  \/ get_budget_status_op
  \/ init_database
  \/ generate_csv_report
  \/ generate_chart

Spec == Init /\ [][Next]_vars

NextRecord ==
  \/ add_expense(ExpenseInputs)
  \/ get_expenses({NoFilter})

SpecRecord == Init /\ [][NextRecord]_vars

NextQuery ==
  \/ add_expense(ExpenseInputs)
  \/ get_expenses(Filters)

SpecQuery == Init /\ [][NextQuery]_vars

NextSummary ==
  \/ add_expense(ExpenseInputs)
  \/ get_expense_summary
  \/ Tick

SpecSummary == Init /\ [][NextSummary]_vars

NextBudget ==
  \/ add_expense(BudgetExpenses)
  \/ set_monthly_budget_op
  \/ get_monthly_budget_op
  \/ get_budget_status_op
  \/ Tick

SpecBudget == Init /\ [][NextBudget]_vars

(***************************************************************************)
(* ExpenseTracker: the interactive shell.  A prompt either returns what    *)
(* the user typed or raises: EOFError when standard input has ended,       *)
(* KeyboardInterrupt when the user interrupts.  get_user_input asks again   *)
(* on text that is not a number, so a numeric prompt returns a number.     *)
(***************************************************************************)
PromptFaults == {"", "EOFError", "KeyboardInterrupt"}

InvalidDate == <<"2", "0", "2", "4", "-", "1", "3", "-", "0", "1">>
ShellDates == { <<>>, UnpaddedDate, InvalidDate }
ShellAmounts == {-40, 0, 40}
ShellNames == {Food, Gym}
Selections == {0, 1, 8, 9, 10}
ShellBudgets == {0, 100}

\* what the search form passes for fields left blank
BlankSearch ==
  [start_date |-> Some(<<>>), end_date |-> Some(<<>>), category |-> Some(<<>>),
   min_amount |-> None, max_amount |-> None, keyword |-> Some(<<>>)]

ShellSearches ==
  { BlankSearch, [BlankSearch EXCEPT !.category = Some(Food)],
    [BlankSearch EXCEPT !.keyword = Some(<<"_">>), !.min_amount = Some(0)] }

\* the store as a handler leaves it, with what the handler reports
Outcome(e, es, c, cs, b, ls, rec, raised, outcome) ==
  [expenses |-> e, expenses_seq |-> es, categories |-> c, categories_seq |-> cs,
   budget |-> b, lastSet |-> ls, recorded |-> rec, raised |-> raised,
   outcome |-> outcome]

Unchanged(raised, outcome) ==
  Outcome(expenses, expenses_seq, categories, categories_seq, budget, lastSet,
          recorded, raised, outcome)

\* add_expense's test of the amount typed: "Amount must be positive."
amount_rejected_negative(amount) == amount < 0

amount_rejected(amount) == amount <= 0

\* ExpenseTracker.add_expense: every outcome the handler can have, over
\* what the user types, the backend's answer to each statement, and a
\* prompt that raises before the category is chosen or after it
shell_add_expense ==
  LET Raising == PromptFaults \ {""}
      Kept(cats, cseq, raised, outcome) ==
        Outcome(expenses, expenses_seq, cats, cseq, budget, lastSet, recorded,
                raised, outcome)
      \* the budget warning that follows a successful insert
      Added(date, category, amount, description, cats, cseq) ==
        LET exps == InsertExpense(expenses, expenses_seq, date, category, amount,
                                  description)
        IN { Outcome(exps, expenses_seq + 1, cats, cseq, budget, lastSet,
                     Append(recorded, Expense(date, category, amount, description)),
                     get_budget_status(budget, exps, today, ok1, ok2).raised,
                     "added") : ok1, ok2 \in BOOLEAN }
      \* the amount and description prompts and the insert
      FromAmount(date, category, cats, cseq) ==
        { Kept(cats, cseq, f, "aborted") : f \in Raising }
          \cup UNION { IF amount_rejected(amount)
                       THEN { Kept(cats, cseq, "", "amount must be positive") }
                       ELSE UNION { IF execute_update(ok, TRUE)
                                    THEN Added(date, category, amount,
                                               Descriptions[1], cats, cseq)
                                    ELSE { Kept(cats, cseq, "", "failed to add expense") }
                                    : ok \in BOOLEAN }
                       : amount \in ShellAmounts }
      \* "Add new category"
      FromNewCategory(date) ==
        UNION { IF execute_update(ok, InsertCategoryAllowed(categories, name))
                THEN FromAmount(date, name,
                                InsertCategory(categories, categories_seq, name),
                                categories_seq + 1)
                ELSE { Unchanged("", "failed to add category") }
                : name \in ShellNames, ok \in BOOLEAN }
      \* the category list and the selection
      FromList(date, listed) ==
        UNION { IF sel = Len(listed) + 1 THEN FromNewCategory(date)
                ELSE IF 1 <= sel /\ sel <= Len(listed)
                  THEN FromAmount(date, listed[sel], categories, categories_seq)
                ELSE { Unchanged("", "invalid selection") }
                : sel \in Selections }
      FromDate(date) ==
        IF strptime(date).isNone THEN { Unchanged("", "invalid date") }
        ELSE UNION { FromList(date, listed) :
                       listed \in UNION { get_categories_results(categories, ok)
                                          : ok \in BOOLEAN } }
  IN { Unchanged(f, "aborted") : f \in Raising }
       \cup UNION { FromDate(IF typed = <<>> THEN strftime(today) ELSE typed)
                    : typed \in ShellDates }

\* ExpenseTracker.view_summary
shell_view_summary(in) ==
  LET periods == [i \in 1..4 |-> <<"daily", "weekly", "monthly", "yearly">>[i]]
      summary == CHOOSE r \in get_expense_summary_results(
                                expenses, periods[in.sel], today, in.ok1, in.ok2) : TRUE
  IN IF in.fault1 # "" THEN Unchanged(in.fault1, "aborted")
     ELSE IF in.sel \notin DOMAIN periods THEN Unchanged("", "invalid selection")
     ELSE Unchanged(summary.raised, "summary")

ViewSummaryInputs ==
  [sel : 1..5, ok1 : BOOLEAN, ok2 : BOOLEAN, fault1 : PromptFaults]

\* ExpenseTracker.search_expenses: badAmount is a minimum amount typed as
\* text that float() rejects
shell_search_expenses(in) ==
  IF in.fault1 # "" THEN Unchanged(in.fault1, "aborted")
  ELSE IF in.badAmount THEN Unchanged("ValueError", "aborted")
  ELSE IF get_expenses_results(expenses, in.filters, in.ok) = { <<>> }
    THEN Unchanged("", "no expenses found")
  ELSE Unchanged("", "search results")

SearchInputs ==
  [filters : ShellSearches, badAmount : BOOLEAN, ok : BOOLEAN,
   fault1 : PromptFaults]

\* ExpenseTracker.manage_budget
shell_manage_budget(in) ==
  LET r == set_monthly_budget(budget, in.amount, in.ok1, in.ok2)
      status == get_budget_status(budget, expenses, today, in.ok1, in.ok2)
  IN IF in.fault1 # "" THEN Unchanged(in.fault1, "aborted")
     ELSE IF in.sel = 1 THEN
       IF in.amount > 0 THEN
         Outcome(expenses, expenses_seq, categories, categories_seq, r.table,
                 IF r.success THEN Some(in.amount) ELSE lastSet, recorded, "",
                 IF r.success THEN "budget set" ELSE "failed to set budget")
       ELSE Unchanged("", "budget must be positive")
     ELSE IF in.sel = 2 THEN
       Unchanged(status.raised,
                 IF status.raised = "" /\ TruthyNum(status.budget)
                 THEN "budget status" ELSE "no budget set")
     ELSE Unchanged("", "invalid selection")

ManageBudgetInputs ==
  [sel : 1..3, amount : ShellBudgets, ok1 : BOOLEAN, ok2 : BOOLEAN,
   fault1 : PromptFaults]

\* ExpenseTracker.generate_reports: writeFault is the error open() or
\* savefig() raises when the report file cannot be written
shell_generate_reports(in) ==
  LET writes == in.sel \in {1, 4}
                  \/ (in.sel \in {2, 3} /\ chart_result(expenses, in.ok) = "file")
  IN IF in.fault1 # "" THEN Unchanged(in.fault1, "aborted")
     ELSE IF in.sel \notin 1..4 THEN Unchanged("", "invalid selection")
     ELSE IF writes /\ in.writeFault THEN Unchanged("OSError", "aborted")
     ELSE Unchanged("", "reports")

ReportInputs ==
  [sel : 1..5, ok : BOOLEAN, writeFault : BOOLEAN, fault1 : PromptFaults]

\* ExpenseTracker.manage_categories
shell_manage_categories(in) ==
  LET listed == CHOOSE l \in get_categories_results(categories, in.okList) : TRUE
      added == execute_update(in.okAdd, InsertCategoryAllowed(categories, in.name))
  IN IF in.fault1 # "" THEN Unchanged(in.fault1, "aborted")
     ELSE IF in.sel # Len(listed) + 1 THEN Unchanged("", "completed")
     ELSE IF ~added THEN Unchanged("", "failed to add category")
     ELSE Outcome(expenses, expenses_seq,
                  InsertCategory(categories, categories_seq, in.name),
                  categories_seq + 1, budget, lastSet, recorded, "", "category added")

ManageCategoriesInputs ==
  [okList : BOOLEAN, sel : Selections, name : ShellNames, okAdd : BOOLEAN,
   fault1 : PromptFaults]

\* where run goes after a step that raised, or raised nothing
AfterFault(raised, normal) ==
  IF raised = "" THEN normal
  ELSE IF raised = "KeyboardInterrupt" THEN "done"
  ELSE "except"

\* one dispatched handler: the store takes what the handler leaves, and run
\* moves on to its pause, to its except clause, or out on an interrupt
Dispatch(name, r) ==
  /\ Len(r.expenses) <= MaxExpenses
  /\ expenses' = r.expenses
  /\ expenses_seq' = r.expenses_seq
  /\ categories' = r.categories
  /\ categories_seq' = r.categories_seq
  /\ budget' = r.budget
  /\ lastSet' = r.lastSet
  /\ recorded' = r.recorded
  /\ ret' = [op |-> name, raised |-> r.raised, outcome |-> r.outcome]
  /\ pc' = AfterFault(r.raised, "pause")
  /\ exitCause' = IF r.raised = "KeyboardInterrupt" THEN "interrupt" ELSE exitCause
  /\ UNCHANGED <<today, choice>>

\* run: display_menu and the prompt for the choice
run_menu ==
  /\ pc = "menu"
  /\ \E c \in 1..8, fault \in PromptFaults :
       /\ choice' = IF fault = "" THEN c ELSE choice
       /\ pc' = AfterFault(fault, "dispatch")
       /\ exitCause' = IF fault = "KeyboardInterrupt" THEN "interrupt" ELSE exitCause
       /\ ret' = [op |-> "run_menu", raised |-> fault]
  /\ UNCHANGED <<store, today, lastSet, recorded>>

run_add_expense ==
  /\ pc = "dispatch" /\ choice = 1
  /\ \E r \in shell_add_expense : Dispatch("add_expense", r)

run_view_summary ==
  /\ pc = "dispatch" /\ choice = 2
  /\ \E in \in ViewSummaryInputs : Dispatch("view_summary", shell_view_summary(in))

run_search_expenses ==
  /\ pc = "dispatch" /\ choice = 3
  /\ \E in \in SearchInputs : Dispatch("search_expenses", shell_search_expenses(in))

run_manage_budget ==
  /\ pc = "dispatch" /\ choice = 4
  /\ \E in \in ManageBudgetInputs : Dispatch("manage_budget", shell_manage_budget(in))

run_generate_reports ==
  /\ pc = "dispatch" /\ choice = 5
  /\ \E in \in ReportInputs : Dispatch("generate_reports", shell_generate_reports(in))

run_manage_categories ==
  /\ pc = "dispatch" /\ choice = 6
  /\ \E in \in ManageCategoriesInputs :
       Dispatch("manage_categories", shell_manage_categories(in))

\* choice 7: break
run_exit ==
  /\ pc = "dispatch" /\ choice = 7
  /\ pc' = "done"
  /\ exitCause' = "exit"
  /\ ret' = [op |-> "run_exit", raised |-> ""]
  /\ UNCHANGED <<store, today, lastSet, recorded, choice>>

\* any other number: "Invalid choice"
run_invalid_choice ==
  /\ pc = "dispatch" /\ choice \notin 1..7
  /\ pc' = "pause"
  /\ ret' = [op |-> "run_invalid_choice", raised |-> ""]
  /\ UNCHANGED <<store, today, lastSet, recorded, choice, exitCause>>

\* input("Press Enter to continue...") at the end of the try block
run_pause ==
  /\ pc = "pause"
  /\ \E fault \in PromptFaults :
       /\ pc' = AfterFault(fault, "menu")
       /\ exitCause' = IF fault = "KeyboardInterrupt" THEN "interrupt" ELSE exitCause
       /\ ret' = [op |-> "run_pause", raised |-> fault]
  /\ UNCHANGED <<store, today, lastSet, recorded, choice>>

\* except Exception: report, then input("Press Enter to continue...");
\* this prompt is outside the try block, so what it raises leaves run
run_except ==
  /\ pc = "except"
  /\ \E fault \in PromptFaults :
       /\ pc' = IF fault = "" THEN "menu" ELSE "done"
       /\ exitCause' = IF fault = "" THEN exitCause
                       ELSE IF fault = "KeyboardInterrupt" THEN "interrupt"
                       ELSE "fault"
       /\ ret' = [op |-> "run_except", raised |-> fault]
  /\ UNCHANGED <<store, today, lastSet, recorded, choice>>

InitShell ==
  /\ expenses = <<>>
  /\ expenses_seq = 0
  /\ categories = SeedCategories(<<>>, default_categories)
  /\ categories_seq = Len(default_categories)
  /\ budget = <<>>
  /\ today = FirstDay
  /\ ret = [op |-> "init", raised |-> ""]
  /\ lastSet = None
  /\ recorded = <<>>
  /\ pc = "menu"
  /\ choice = 0
  /\ exitCause = ""

NextShell ==
  \/ run_menu
  \/ run_add_expense
  \/ run_view_summary
  \/ run_search_expenses
  \/ run_manage_budget
  \/ run_generate_reports
  \/ run_manage_categories
  \/ run_exit
  \/ run_invalid_choice
  \/ run_pause
  \/ run_except

SpecShell == InitShell /\ [][NextShell]_vars

(***************************************************************************)
(* Properties.                                                             *)
(***************************************************************************)
\* how many positions of the sequence s satisfy P
Count(s, P(_)) == Cardinality({i \in 1..Len(s) : P(s[i])})

\* the four fields add_expense was given, as a returned tuple carries them
Fields(t) == Expense(t[2], t[3], t[4], t[5])

\* C1: a query with no filters returns, for every (date, category, amount,
\* description), as many rows with those fields as there were successful
\* add_expense calls with them, each row under an id of its own: one more
\* per successful record, none lost, and every field as it was given
C1_RecordThenQuery ==
  (ret.op = "get_expenses" /\ ret.ok /\ ret.filters = NoFilter) =>
    /\ Len(ret.rows) = Len(recorded)
    /\ \A e \in Range(recorded) :
         LET Same(x) == x = e
             Returned(t) == Fields(t) = e
         IN Count(ret.rows, Returned) = Count(recorded, Same)
    /\ \A i, j \in 1..Len(ret.rows) : i # j => ret.rows[i][1] # ret.rows[j][1]

\* the same expense was recorded twice and an unfiltered query has answered
C1_Witness ==
  /\ ret.op = "get_expenses" /\ ret.ok /\ ret.filters = NoFilter
  /\ Len(recorded) = 2
  /\ recorded[1] = recorded[2]
  /\ Len(ret.rows) = 2

\* a filter counts as supplied when it is given a value other than the empty
\* text, which is what the search form passes for a field left blank
Supplied(o) == ~o.isNone /\ o.val # <<>>

\* text contains part, letters compared without regard to ASCII case
Contains(text, part) ==
  \E i \in 0..(Len(text) - Len(part)) :
    \A k \in 1..Len(part) : Lower(text[i + k]) = Lower(part[k])

\* the filters of the claim, each applied only when supplied
Satisfies(r, f) ==
  /\ Supplied(f.start_date) => TextLeq(f.start_date.val, r.date)
  /\ Supplied(f.end_date) => TextLeq(r.date, f.end_date.val)
  /\ Supplied(f.category) => r.category = f.category.val
  /\ ~f.min_amount.isNone => r.amount >= f.min_amount.val
  /\ ~f.max_amount.isNone => r.amount <= f.max_amount.val
  /\ Supplied(f.keyword) => Contains(r.description, f.keyword.val)

\* C6: a query returns exactly the stored expenses that satisfy every
\* supplied filter: date >= start, date <= end, category equal,
\* amount >= min, amount <= max, description contains keyword
C6_QueryReturnsExactlyMatching ==
  (ret.op = "get_expenses" /\ ret.ok) =>
    /\ Range(ret.rows) =
         {ExpenseTuple(r) : r \in {x \in Range(expenses) : Satisfies(x, ret.filters)}}
    /\ Len(ret.rows) = Cardinality(Range(ret.rows))

\* C2: the budget table never holds more than one row; it is empty until
\* a set_monthly_budget succeeds and from then on holds the amount of the
\* most recent successful one, which is what get_monthly_budget returns
C2_SingleLatestBudget ==
  /\ Len(budget) <= 1
  /\ lastSet.isNone <=> budget = <<>>
  /\ budget # <<>> => budget[1].monthly_budget = lastSet.val
  /\ (ret.op = "get_monthly_budget" /\ ret.ok) => ret.budget = lastSet

\* a budget was set successfully while an earlier one was in the table
C2_Witness ==
  /\ ret.op = "set_monthly_budget"
  /\ ret.success
  /\ ret.exists
  /\ budget = << [id |-> 1, monthly_budget |-> ret.amount] >>

\* C3: add_category of a name the registry already holds returns False and
\* leaves the registry as it was, and get_categories lists every name of
\* the registry exactly once
C3_DuplicateCategoryRejected ==
  [][ /\ (ret'.op = "add_category" /\ ret'.name \in CategoryNames(categories)) =>
           (~ret'.success /\ categories' = categories)
      /\ (ret'.op = "get_categories" /\ ret'.ok) =>
           /\ Range(ret'.names) = CategoryNames(categories')
           /\ \A n \in CategoryNames(categories') :
                LET Is(x) == x = n IN Count(ret'.names, Is) = 1 ]_vars

\* a name added earlier was added again, and the store refused it
C3_Witness ==
  /\ ret.op = "add_category"
  /\ ret.ok
  /\ ~ret.success
  /\ ret.name = Gym
  /\ Len(categories) = Len(default_categories) + 1

RECURSIVE SumTotals(_)
SumTotals(pairs) == IF pairs = <<>> THEN 0 ELSE Head(pairs)[2] + SumTotals(Tail(pairs))

\* the expense lies in the window the summary reports, or the summary
\* reports no window
InReportedWindow(r, v) ==
  (~v.start_date.isNone /\ ~v.end_date.isNone) =>
    Between(r.date, v.start_date.val, v.end_date.val)

\* C4: for every period the amounts of category_breakdown add up to
\* total_amount, and when no expense lies in the period total_amount is 0
\* and category_breakdown is empty
C4_BreakdownSumsToTotal ==
  (ret.op = "get_expense_summary" /\ ret.ok /\ ret.raised = "") =>
    LET v == ret.summary IN
    /\ SumTotals(v.category_breakdown) = v.total_amount
    /\ (\A r \in Range(expenses) : ~InReportedWindow(r, v)) =>
         (v.total_amount = 0 /\ v.category_breakdown = <<>>)

\* a weekly summary over expenses of two categories
C4_Witness ==
  /\ ret.op = "get_expense_summary" /\ ret.ok /\ ret.raised = ""
  /\ ret.period = "weekly"
  /\ Len(ret.summary.category_breakdown) = 2

\* the calendar date an expense carries lies in [first day of now's month, now]
InCurrentMonth(r, now) ==
  LET d == strptime(r.date) IN
  /\ ~d.isNone
  /\ toordinal(Date(now.y, now.m, 1)) <= toordinal(d.val)
  /\ toordinal(d.val) <= toordinal(now)

\* the amount spent from the first day of now's month through now
MonthSpend(table, now) ==
  LET Test(r) == InCurrentMonth(r, now) IN SumAmount(SelectSeq(table, Test))

\* C5: the total of the monthly summary is the sum of the amounts of exactly
\* the expenses dated from the first day of today's month through today
C5_MonthlyTotal ==
  (ret.op = "get_expense_summary" /\ ret.ok /\ ret.raised = ""
     /\ ret.period = "monthly") =>
    ret.summary.total_amount = MonthSpend(expenses, today)

\* C7: with a budget B > 0 set and S spent this month, get_budget_status
\* returns budget B, spent S, remaining B - S and percentage S / B * 100
C7_BudgetStatus ==
  (ret.op = "get_budget_status" /\ ret.ok /\ ~lastSet.isNone /\ lastSet.val > 0) =>
    LET B == lastSet.val
        S == MonthSpend(expenses, today)
    IN /\ ret.raised = ""
       /\ ret.status.budget = Some(B)
       /\ ret.status.spent = S
       /\ ret.status.remaining = B - S
       /\ ret.status.percentage = Ratio(S * 100, B)

\* C8: no operation of the managers lets an exception reach its caller,
\* whatever the backend does
C8_NoExceptionPropagates == ret.raised = ""

\* C9: every step keeps each stored expense in place with its id, date,
\* category, amount and description, and leaves no two rows with one id
C9_LedgerAppendOnly ==
  [][ /\ Len(expenses') >= Len(expenses)
      /\ \A i \in 1..Len(expenses) : expenses'[i] = expenses[i]
      /\ \A i, j \in 1..Len(expenses') :
           i # j => expenses'[i].id # expenses'[j].id ]_vars

\* the store holding two expenses was initialised again
C9_Witness ==
  /\ ret.op = "init_database"
  /\ ret.ok
  /\ Len(expenses) >= 2

\* C10: run stops only when the user chooses exit or interrupts; a fault
\* raised in the loop is caught and the loop goes on
C10_LoopEndsOnlyOnExitOrInterrupt ==
  pc = "done" => exitCause \in {"exit", "interrupt"}

\* the outcomes of the shell's add-expense action that report an
\* input-validation error
ValidationAborts ==
  {"invalid date", "invalid selection", "failed to add category",
   "amount must be positive"}

\* C11: after every add-expense action of the shell each stored expense has
\* an amount > 0 and a date that strptime('%Y-%m-%d') parses, and an action
\* that reports a non-positive amount, a malformed date or an out-of-range
\* selection inserts no expense
C11_ShellStoresOnlyValidExpenses ==
  [][ ret'.op = "add_expense" =>
        /\ \A r \in Range(expenses') : r.amount > 0 /\ ~strptime(r.date).isNone
        /\ ret'.outcome \in {"amount must be positive", "invalid date",
                            "invalid selection"} => expenses' = expenses ]_vars

\* the shell has stored an expense, and a later add-expense was refused for
\* its amount
C11_Witness ==
  /\ ret.op = "add_expense"
  /\ ret.outcome = "amount must be positive"
  /\ Len(expenses) = 1

\* C12: when no budget has been set get_budget_status returns budget absent,
\* spent 0, remaining 0 and percentage 0, whatever expenses the month holds
\* and whatever the backend answers
C12_StatusWithoutBudget ==
  (ret.op = "get_budget_status" /\ lastSet.isNone) =>
    ret.status = [raised |-> "", budget |-> None, spent |-> 0, remaining |-> 0,
                  percentage |-> Ratio(0, 1)]

\* the status was asked with no budget set and money spent this month
C12_Witness ==
  /\ ret.op = "get_budget_status"
  /\ lastSet.isNone
  /\ budget = <<>>
  /\ MonthSpend(expenses, today) > 0

\* C13: an add-expense action of the shell that ends on an input-validation
\* error (malformed date, out-of-range selection, failed category add,
\* non-positive amount) leaves the expenses, categories and budget tables
\* as they were before it started
C13_AbortLeavesStoreUnchanged ==
  [][ (ret'.op = "add_expense" /\ ret'.outcome \in ValidationAborts) =>
        store' = store ]_vars

\* C14: through the shell, every step leaves each stored expense with a
\* category that is a name of the categories table, and takes no name out
\* of that table
C14_ExpenseCategoryInRegistry ==
  [][ /\ \A r \in Range(expenses') : r.category \in CategoryNames(categories')
      /\ CategoryNames(categories) \subseteq CategoryNames(categories') ]_vars

\* the shell stored one expense under a category it had just added and one
\* under a category picked from the list
C14_Witness ==
  /\ ret.op = "add_expense"
  /\ ret.outcome = "added"
  /\ Len(expenses) = 2
  /\ expenses[1].category = Gym
  /\ expenses[2].category \in Range(default_categories)

====
